---- MODULE Spec2Model ----
(***************************************************************************)
(* Model of cardinity.go: the OAuth1 header builder oAuthString and the    *)
(* signed request executor Cardinity.do.                                   *)
(*                                                                         *)
(* Strings are sequences of symbols.  A symbol is either one reserved      *)
(* character ("&", "=", " ", "+", "/", ":", "?", "%"), the escape triplet  *)
(* of one ("%26"), or a word of unreserved characters ("GET",              *)
(* "oauth_nonce").  Escaping, upper-casing, splitting and joining work     *)
(* symbol by symbol, as the Go functions work byte by byte.                *)
(***************************************************************************)
EXTENDS Integers, Sequences, FiniteSets, TLC

VARIABLES c, now, pc, req, v, res, out, trace, sig

vars == <<c, now, pc, req, v, res, out, trace, sig>>

\* ------------------------------------------------------------------ bounds

\* Number of do calls in flight on one Cardinity value (SpecConc).
NumCalls == 2
\* Largest reading of the wall clock, in Unix seconds.
MaxTime == 2
\* Longest response body, in tokens.
MaxBody == 3

\* ----------------------------------------------------------------- strings

\* net/url QueryEscape on one symbol: unreserved words are kept, a space
\* becomes "+", every other reserved character becomes its %XX triplet and
\* the "%" of a triplet becomes "%25".
QueryEscapeSym(x) ==
  CASE x = " " -> "+"
    [] x = "&" -> "%26"
    [] x = "=" -> "%3D"
    [] x = "+" -> "%2B"
    [] x = "/" -> "%2F"
    [] x = ":" -> "%3A"
    [] x = "?" -> "%3F"
    [] x = "%" -> "%25"
    [] x = "%26" -> "%2526"
    [] x = "%3D" -> "%253D"
    [] x = "%2B" -> "%252B"
    [] x = "%2F" -> "%252F"
    [] x = "%3A" -> "%253A"
    [] x = "%3F" -> "%253F"
    [] x = "%25" -> "%2525"
    [] OTHER -> x

QueryEscape(s) == [k \in 1..Len(s) |-> QueryEscapeSym(s[k])]

\* strings.ToUpper on one symbol.
ToUpperSym(x) ==
  CASE x = "get" -> "GET"
    [] x = "post" -> "POST"
    [] x = "Post" -> "POST"
    [] OTHER -> x

ToUpper(s) == [k \in 1..Len(s) |-> ToUpperSym(s[k])]

\* fmt.Sprintf("%d", ts)
FormatInt(n) == ToString(n)

\* fmt.Sprintf("%x", md5.Sum(b))[:32]: the hex digest of the decimal text of
\* the timestamp.  The digest is idealised as collision free: one word per
\* distinct input text.
Md5Hex(text) == "md5x" \o text

\* ------------------------------------------------------------- url.Values

\* Byte order of the parameter names that oAuthString adds (sort.Strings in
\* Values.Encode).
KeyRank(k) ==
  CASE k = "oauth_consumer_key" -> 1
    [] k = "oauth_nonce" -> 2
    [] k = "oauth_signature" -> 3
    [] k = "oauth_signature_method" -> 4
    [] k = "oauth_timestamp" -> 5
    [] k = "oauth_version" -> 6

\* url.Values{}
EmptyValues == << >>

\* Values.Add: append the value to the list kept under the key.
Add(p, k, val) ==
  IF k \in DOMAIN p THEN [p EXCEPT ![k] = Append(@, val)]
  ELSE [x \in DOMAIN p \cup {k} |-> IF x = k THEN <<val>> ELSE p[x]]

RECURSIVE SortedKeys(_)
SortedKeys(ks) ==
  IF ks = {} THEN << >>
  ELSE LET m == CHOOSE x \in ks : \A y \in ks : KeyRank(x) <= KeyRank(y)
       IN <<m>> \o SortedKeys(ks \ {m})

RECURSIVE EncodeKey(_, _, _)
\* The inner loop of Values.Encode: one escaped key=value per value.
EncodeKey(buf, k, vals) ==
  IF vals = << >> THEN buf
  ELSE EncodeKey((IF buf = << >> THEN << >> ELSE buf \o <<"&">>)
                   \o QueryEscape(<<k>>) \o <<"=">> \o QueryEscape(Head(vals)),
                 k, Tail(vals))

RECURSIVE EncodeFrom(_, _, _)
EncodeFrom(buf, p, ks) ==
  IF ks = << >> THEN buf
  ELSE EncodeFrom(EncodeKey(buf, Head(ks), p[Head(ks)]), p, Tail(ks))

\* Values.Encode: "bar=baz&foo=quux", sorted by key.
Encode(p) == EncodeFrom(<< >>, p, SortedKeys(DOMAIN p))

\* ----------------------------------------------------------------- signing

RECURSIVE Checksum(_)
Checksum(s) ==
  IF s = << >> THEN 7
  ELSE (31 * Checksum(Tail(s)) + Len(Head(s)) + Len(s)) % 997

\* Sign(secret, base, tokenSecret): HMAC-SHA1 of the base string under the key
\* escape(secret) & escape(tokenSecret), base64 encoded.  The 20 byte digest
\* is reduced to a checksum word; its base64 text always ends in one "=".
Sign(secret, s, tokenSecret) ==
  <<"sig" \o ToString(Checksum(QueryEscape(secret) \o <<"&">>
                                 \o QueryEscape(tokenSecret) \o <<"|">> \o s)),
    "=">>

\* The parameter set with the oauth_version parameter forgotten.
OAuthParamsNoVersion(key, ts) ==
  LET nonce == Md5Hex(FormatInt(ts))
      p1 == Add(EmptyValues, "oauth_consumer_key", key)
      p2 == Add(p1, "oauth_signature_method", <<"HMAC-SHA1">>)
      p3 == Add(p2, "oauth_timestamp", <<FormatInt(ts)>>)
  IN Add(p3, "oauth_nonce", <<nonce>>)

\* The parameter set p after the five Add calls.
OAuthParams(key, ts) ==
  LET nonce == Md5Hex(FormatInt(ts))
      p1 == Add(EmptyValues, "oauth_consumer_key", key)
      p2 == Add(p1, "oauth_signature_method", <<"HMAC-SHA1">>)
      p3 == Add(p2, "oauth_timestamp", <<FormatInt(ts)>>)
      p4 == Add(p3, "oauth_nonce", <<nonce>>)
  IN Add(p4, "oauth_version", <<"1.0">>)

\* The string s that is signed.
OAuthBase(method, uri, p) ==
  ToUpper(method) \o <<"&">> \o QueryEscape(uri) \o <<"&">> \o Encode(p)

\* The parameter set that is encoded into the header.
OAuthSigned(p, secret, s) == Add(p, "oauth_signature", Sign(secret, s, << >>))

\* oAuthString with the clock reading ts.
OAuthString(key, secret, method, uri, ts) ==
  LET p == OAuthParams(key, ts)
      s == OAuthBase(method, uri, p)
  IN Encode(OAuthSigned(p, secret, s))

\* ------------------------------------------------------- response and JSON

\* A response body is a sequence of tokens: "{" and "}" delimit an object,
\* "m" is a well-typed member ("title":"Invalid Card"; at top level its key
\* is a complete JSON string followed by ":"), "x" is a byte that cannot
\* start or continue a JSON value.
Tokens == {"{", "}", "m", "x"}

RECURSIVE SeqsUpTo(_, _)
SeqsUpTo(S, n) ==
  IF n = 0 THEN {<< >>}
  ELSE LET shorter == SeqsUpTo(S, n - 1)
       IN shorter \cup {Append(s, x) : s \in {t \in shorter : Len(t) = n - 1}, x \in S}

Bodies == SeqsUpTo(Tokens, MaxBody)

\* The bytes the body reader delivers before it ends: all of the body and
\* io.EOF, or the first r.delivered bytes and a read error.
Received(r) == SubSeq(r.Body, 1, r.delivered)

ReadFailed(r) == r.failed

\* res.Status for a status code.
StatusLine(code) ==
  CASE code = 200 -> "200 OK"
    [] code = 399 -> "399 status code 399"
    [] code = 400 -> "400 Bad Request"
    [] code = 402 -> "402 Payment Required"
    [] code = 500 -> "500 Internal Server Error"

NoResponse ==
  [StatusCode |-> 0, Status |-> "", Body |-> << >>, delivered |-> 0, failed |-> FALSE]

Response(code, body, delivered, failed) ==
  [StatusCode |-> code, Status |-> StatusLine(code), Body |-> body,
   delivered |-> delivered, failed |-> failed]

\* The zero value of a decode target, and of APIError{}.
ZeroValue == [Title |-> ""]

RECURSIVE ScanObject(_, _)
\* encoding/json scanner inside an object, at token k of d: members up to the
\* closing brace.
ScanObject(d, k) ==
  IF k > Len(d) THEN [kind |-> "more", n |-> Len(d), members |-> 0]
  ELSE IF d[k] = "}" THEN [kind |-> "object", n |-> k, members |-> 0]
  ELSE IF d[k] = "m"
    THEN LET rest == ScanObject(d, k + 1)
         IN [rest EXCEPT !.members = IF rest.kind = "object" THEN @ + 1 ELSE @]
  ELSE [kind |-> "syntax", n |-> k, members |-> 0]

\* Decoder.readValue on the delivered bytes: the first JSON value, a syntax
\* error, or the need for more input.
ScanValue(d) ==
  IF d = << >> THEN [kind |-> "more", n |-> 0, members |-> 0]
  ELSE IF d[1] = "{" THEN ScanObject(d, 2)
  ELSE IF d[1] = "m" THEN [kind |-> "scalar", n |-> 1, members |-> 0]
  ELSE [kind |-> "syntax", n |-> 1, members |-> 0]

\* json.NewDecoder(body).Decode(&target): the error ("" for nil) and the
\* target afterwards.
Decode(r, target) ==
  LET d == Received(r)
      sc == ScanValue(d)
  IN CASE sc.kind = "object" ->
            [err |-> "",
             target |-> IF sc.members > 0 THEN [Title |-> "Invalid Card"] ELSE target]
       [] sc.kind = "scalar" ->
            [err |-> "json: cannot unmarshal string into Go value", target |-> target]
       [] sc.kind = "syntax" ->
            [err |-> "invalid character", target |-> target]
       [] sc.kind = "more" ->
            [err |-> IF ReadFailed(r) THEN "read: connection reset"
                     ELSE IF d = << >> THEN "EOF" ELSE "unexpected EOF",
             target |-> target]

\* ---------------------------------------------------------------- results

NilBytes == [isNil |-> TRUE, data |-> << >>]
Bytes(d) == [isNil |-> FALSE, data |-> d]

NilError == [kind |-> "nil", msg |-> "", cause |-> "", api |-> ZeroValue]

\* errors.Wrap(cause, msg)
Wrap(cause, msg) == [kind |-> "wrapped", msg |-> msg, cause |-> cause, api |-> ZeroValue]

\* fmt.Errorf("unexpected error: %s", status)
UnexpectedError(status) ==
  [kind |-> "errorf", msg |-> "unexpected error: " \o status, cause |-> "", api |-> ZeroValue]

\* &e, an *APIError
APIErrorOf(e) == [kind |-> "APIError", msg |-> "", cause |-> "", api |-> e]

\* A single Read in place of ReadAll: the first chunk only.
ReadAllOneChunk(r) ==
  [bytes |-> Bytes(IF Received(r) = << >> THEN << >> ELSE <<Head(Received(r))>>),
   err |-> IF ReadFailed(r) THEN [NilError EXCEPT !.kind = "read",
                                                 !.msg = "read: connection reset"]
           ELSE NilError]

\* ioutil.ReadAll(res.Body): what was read, and the read error if any.
ReadAll(r) ==
  [bytes |-> Bytes(Received(r)),
   err |-> IF ReadFailed(r) THEN [NilError EXCEPT !.kind = "read",
                                                 !.msg = "read: connection reset"]
           ELSE NilError]

\* Lines 101-111 of do: the result for a response with StatusCode >= 400.
ErrorResult(r) ==
  LET dec == Decode(r, ZeroValue)
  IN IF dec.err # "" THEN [bytes |-> NilBytes, err |-> UnexpectedError(r.Status)]
     ELSE [bytes |-> NilBytes, err |-> APIErrorOf(dec.target)]

\* Lines 95-97 of do: the result when client.Do fails.
SendFailResult(cause) == [bytes |-> NilBytes, err |-> Wrap(cause, "making request")]

\* The decode error dropped.
DecodeResultSwallowed(dec) == [bytes |-> NilBytes, err |-> NilError]

\* Lines 119-123 of do: the result of decoding into v.
DecodeResult(dec) ==
  IF dec.err # "" THEN [bytes |-> NilBytes, err |-> Wrap(dec.err, "decoding json")]
  ELSE [bytes |-> NilBytes, err |-> NilError]

\* The comparison off by one: res.StatusCode > 400.
IsAPIErrorAbove(r) == r.StatusCode > 400

\* res.StatusCode >= 400
IsAPIError(r) == r.StatusCode >= 400

\* ------------------------------------------------------------------ inputs

Calls == 1..NumCalls

Creds ==
  {[ConsumerKey |-> k, ConsumerSecret |-> s, Debug |-> FALSE] :
     k \in {<<"ck">>, <<"a", "&", "oauth_nonce", "=", "n">>, <<"k", " ", "%">>, << >>},
     s \in {<<"cs">>, <<"s", "&", "=">>}}

BaseURL == <<"https", ":", "/", "/", "api.cardinity.com", "/", "v1", "/">>

Requests ==
  {[Method |-> m, URL |-> u, Header |-> << >>] :
     m \in {<<"get">>, <<"GET">>, <<"Post">>},
     u \in {BaseURL \o <<"payments">>,
            BaseURL \o <<"payments", "?", "a", "=", "b", "&", "c">>}}

OneRequest == {[Method |-> <<"Post">>, URL |-> BaseURL \o <<"payments">>, Header |-> << >>]}

StatusCodes == {200, 399, 400, 500}

\* Every response: a status, a body, and how the body read ends.
Responses ==
  {Response(code, b, Len(b), FALSE) : code \in StatusCodes, b \in Bodies}
  \cup UNION {{Response(code, b, k, TRUE) : k \in 0..Len(b)} :
                code \in StatusCodes, b \in Bodies}

\* The responses of the runs with several calls in flight.
FewResponses ==
  {Response(200, <<"{", "m", "}">>, 3, FALSE),
   Response(400, <<"{", "m", "}">>, 3, FALSE),
   Response(200, <<"{", "m", "}">>, 1, TRUE)}

SendCauses == {"dial tcp: connection refused"}

Targets == {[present |-> FALSE, val |-> ZeroValue], [present |-> TRUE, val |-> ZeroValue]}

NoSig == [ts |-> 0, s |-> << >>]

\* ------------------------------------------------------------------ actions

\* time.Now() moves on.
Tick ==
  /\ now < MaxTime
  /\ now' = now + 1
  /\ UNCHANGED <<c, pc, req, v, res, out, trace, sig>>

\* A caller calls c.do(r, t) with a request of its own.
Call(i, rs) ==
  /\ pc[i] = "idle"
  /\ \E r \in rs, t \in Targets :
       /\ req' = [req EXCEPT ![i] = r]
       /\ v' = [v EXCEPT ![i] = t]
  /\ pc' = [pc EXCEPT ![i] = "headers"]
  /\ UNCHANGED <<c, now, res, out, trace, sig>>

\* http.Header.Set
HeaderSet(h, k, val) == [x \in DOMAIN h \cup {k} |-> IF x = k THEN val ELSE h[x]]

\* SetHeaders building the HMAC key in place in the shared client.
SetHeadersInPlace(i) ==
  /\ pc[i] = "headers"
  /\ LET ts == now
         secret == c.ConsumerSecret \o <<"&">>
         p == OAuthParams(c.ConsumerKey, ts)
         s == OAuthBase(req[i].Method, req[i].URL, p)
         h1 == HeaderSet(req[i].Header, "Content-Type", <<"application", "/", "json">>)
         h2 == HeaderSet(h1, "OAuth",
                 OAuthString(c.ConsumerKey, secret, req[i].Method, req[i].URL, ts))
     IN /\ req' = [req EXCEPT ![i].Header = h2]
        /\ sig' = [sig EXCEPT ![i] = [ts |-> ts, s |-> s]]
        /\ c' = [c EXCEPT !.ConsumerSecret = secret]
  /\ pc' = [pc EXCEPT ![i] = "send"]
  /\ UNCHANGED <<now, v, res, out, trace>>

\* Lines 89-90 of do: Content-Type and the OAuth header of oAuthString, which
\* reads the clock once.
SetHeaders(i) ==
  /\ pc[i] = "headers"
  /\ LET ts == now
         p == OAuthParams(c.ConsumerKey, ts)
         s == OAuthBase(req[i].Method, req[i].URL, p)
         h1 == HeaderSet(req[i].Header, "Content-Type", <<"application", "/", "json">>)
         h2 == HeaderSet(h1, "OAuth",
                 OAuthString(c.ConsumerKey, c.ConsumerSecret,
                             req[i].Method, req[i].URL, ts))
     IN /\ req' = [req EXCEPT ![i].Header = h2]
        /\ sig' = [sig EXCEPT ![i] = [ts |-> ts, s |-> s]]
  /\ pc' = [pc EXCEPT ![i] = "send"]
  /\ UNCHANGED <<c, now, v, res, out, trace>>

\* A failed send tried again.
SendFailRetry(i) ==
  /\ pc[i] = "send"
  /\ trace' = [trace EXCEPT ![i] = @ \o <<"send">>]
  /\ UNCHANGED <<c, now, pc, req, v, res, out, sig>>

\* Lines 93-97 of do: client.Do fails; do returns at once.
SendFail(i) ==
  /\ pc[i] = "send"
  /\ \E cause \in SendCauses : out' = [out EXCEPT ![i] = SendFailResult(cause)]
  /\ trace' = [trace EXCEPT ![i] = @ \o <<"send", "return">>]
  /\ pc' = [pc EXCEPT ![i] = "done"]
  /\ UNCHANGED <<c, now, req, v, res, sig>>

\* Lines 93-98 of do: client.Do returns a response, whose body is open; its
\* Close is deferred.
SendOk(i, rs) ==
  /\ pc[i] = "send"
  /\ \E r \in rs : res' = [res EXCEPT ![i] = r]
  /\ trace' = [trace EXCEPT ![i] = @ \o <<"send">>]
  /\ pc' = [pc EXCEPT ![i] = "classify"]
  /\ UNCHANGED <<c, now, req, v, out, sig>>

\* Lines 101-111 of do: the body of a response with status >= 400 is decoded
\* into a local APIError.
DecodeAPIError(i) ==
  /\ pc[i] = "classify"
  /\ IsAPIError(res[i])
  /\ out' = [out EXCEPT ![i] = ErrorResult(res[i])]
  /\ trace' = [trace EXCEPT ![i] = @ \o <<"read">>]
  /\ pc' = [pc EXCEPT ![i] = "return"]
  /\ UNCHANGED <<c, now, req, v, res, sig>>

\* Lines 114-116 of do: without a target the body is read to its end and
\* ReadAll's two results are returned as they are.
ReadBody(i) ==
  /\ pc[i] = "classify"
  /\ ~IsAPIError(res[i])
  /\ ~v[i].present
  /\ out' = [out EXCEPT ![i] = ReadAll(res[i])]
  /\ trace' = [trace EXCEPT ![i] = @ \o <<"read">>]
  /\ pc' = [pc EXCEPT ![i] = "return"]
  /\ UNCHANGED <<c, now, req, v, res, sig>>

\* Lines 119-123 of do: the body is decoded into v.
DecodeBody(i) ==
  /\ pc[i] = "classify"
  /\ ~IsAPIError(res[i])
  /\ v[i].present
  /\ LET dec == Decode(res[i], v[i].val)
     IN /\ v' = [v EXCEPT ![i].val = dec.target]
        /\ out' = [out EXCEPT ![i] = DecodeResult(dec)]
  /\ trace' = [trace EXCEPT ![i] = @ \o <<"read">>]
  /\ pc' = [pc EXCEPT ![i] = "return"]
  /\ UNCHANGED <<c, now, req, res, sig>>

\* do returning without the deferred Close.
LeakBody(i) ==
  /\ pc[i] = "return"
  /\ trace' = [trace EXCEPT ![i] = @ \o <<"return">>]
  /\ pc' = [pc EXCEPT ![i] = "done"]
  /\ UNCHANGED <<c, now, req, v, res, out, sig>>

\* Line 98 of do: the deferred res.Body.Close() runs when do returns.
CloseBody(i) ==
  /\ pc[i] = "return"
  /\ trace' = [trace EXCEPT ![i] = @ \o <<"close", "return">>]
  /\ pc' = [pc EXCEPT ![i] = "done"]
  /\ UNCHANGED <<c, now, req, v, res, out, sig>>

\* ----------------------------------------------------------- specifications

InitCalls ==
  /\ now = 1
  /\ pc = [i \in Calls |-> "idle"]
  /\ req = [i \in Calls |-> [Method |-> << >>, URL |-> << >>, Header |-> << >>]]
  /\ v = [i \in Calls |-> [present |-> FALSE, val |-> ZeroValue]]
  /\ res = [i \in Calls |-> NoResponse]
  /\ out = [i \in Calls |-> [bytes |-> NilBytes, err |-> NilError]]
  /\ trace = [i \in Calls |-> << >>]
  /\ sig = [i \in Calls |-> NoSig]

\* New(consumerKey, consumerSecret)
New(consumerKey, consumerSecret) ==
  [ConsumerKey |-> consumerKey, ConsumerSecret |-> consumerSecret, Debug |-> FALSE]

\* One call of do at a time, every response.
Init ==
  /\ c = New(<<"ck">>, <<"cs">>)
  /\ InitCalls

Next ==
  \/ Tick
  \/ Call(1, OneRequest)
  \/ SetHeaders(1)
  \/ SendFail(1)
  \/ SendOk(1, Responses)
  \/ DecodeAPIError(1)
  \/ ReadBody(1)
  \/ DecodeBody(1)
  \/ CloseBody(1)

Spec == Init /\ [][Next]_vars

\* Several calls of do in flight on the same Cardinity value.
NextConc ==
  \/ Tick
  \/ \E i \in Calls :
       \/ Call(i, OneRequest)
       \/ SetHeaders(i)
       \/ SendFail(i)
       \/ SendOk(i, FewResponses)
       \/ DecodeAPIError(i)
       \/ ReadBody(i)
       \/ DecodeBody(i)
       \/ CloseBody(i)

SpecConc == Init /\ [][NextConc]_vars

\* oAuthString alone, over every key, secret, method and URI.
InitSign ==
  /\ c \in Creds
  /\ InitCalls

NextSign ==
  \/ Tick
  \/ Call(1, Requests)
  \/ SetHeaders(1)

SpecSign == InitSign /\ [][NextSign]_vars

\* --------------------------------------------------- reading states back

Count(seq, x) == Cardinality({k \in DOMAIN seq : seq[k] = x})

\* The positions of x in seq.
Positions(seq, x) == {k \in DOMAIN seq : seq[k] = x}

RECURSIVE SplitOn(_, _)
\* The pieces of s between the occurrences of the symbol sep.
SplitOn(s, sep) ==
  IF Positions(s, sep) = {} THEN <<s>>
  ELSE LET k == CHOOSE x \in Positions(s, sep) : \A y \in Positions(s, sep) : x <= y
       IN <<SubSeq(s, 1, k - 1)>> \o SplitOn(SubSeq(s, k + 1, Len(s)), sep)

\* The key=value parameters a server reads out of a query-shaped string.
Params(h) ==
  LET parts == SplitOn(h, "&")
  IN [k \in DOMAIN parts |->
        LET kv == SplitOn(parts[k], "=")
        IN [key |-> kv[1], val |-> IF Len(kv) > 1 THEN kv[2] ELSE << >>,
            pieces |-> Len(kv)]]

\* The values a query-shaped string carries under a name.
ValuesOf(h, name) ==
  {Params(h)[k].val : k \in {x \in DOMAIN Params(h) : Params(h)[x].key = <<name>>}}

BaseNames ==
  {"oauth_consumer_key", "oauth_signature_method", "oauth_timestamp",
   "oauth_nonce", "oauth_version"}

HeaderNames == BaseNames \cup {"oauth_signature"}

\* Exactly the given names, each once, each as name=value.
HasExactly(ps, names) ==
  /\ Len(ps) = Cardinality(names)
  /\ \A n \in names : Cardinality({k \in DOMAIN ps : ps[k].key = <<n>>}) = 1
  /\ \A k \in DOMAIN ps : ps[k].pieces = 2

Signed(i) == pc[i] \notin {"idle", "headers"}
Finished(i) == pc[i] = "done"
GotResponse(i) == res[i] # NoResponse
SendFailed(i) == Finished(i) /\ ~GotResponse(i)
Decided(i) == pc[i] \in {"return", "done"} /\ GotResponse(i)

\* The delivered bytes begin with a complete object: "{", members, "}".
StartsWithObject(d) ==
  \E n \in 2..Len(d) :
    /\ d[1] = "{"
    /\ d[n] = "}"
    /\ \A k \in 2..(n - 1) : d[k] = "m"

\* The value of the object the delivered bytes begin with, laid over old.
ObjectValue(d, old) ==
  IF \E n \in 3..Len(d) : d[n] = "}" /\ \A k \in 2..(n - 1) : d[k] = "m"
  THEN [Title |-> "Invalid Card"] ELSE old

\* -------------------------------------------------------------------- C1

\* C1: every finished call of do has exactly one of the three outcomes: raw
\* bytes with nil error and no decode, the target decoded into with nil bytes
\* and nil error, or an error with nil bytes.
C1_ExactlyOneOutcome ==
  \A i \in Calls : Finished(i) =>
    LET rawBytes == ~out[i].bytes.isNil /\ out[i].err = NilError /\ ~v[i].present
        decoded == out[i].bytes.isNil /\ out[i].err = NilError /\ v[i].present
        failure == out[i].bytes.isNil /\ out[i].err # NilError
    IN Cardinality({b \in {<<1, rawBytes>>, <<2, decoded>>, <<3, failure>>} : b[2]}) = 1

\* -------------------------------------------------------------------- C2

\* C2: a finished call that got a response closed its body exactly once,
\* after every read and right before returning; a finished call whose send
\* failed read and closed nothing.
C2_BodyClosedOnce ==
  \A i \in Calls : Finished(i) =>
    IF GotResponse(i)
    THEN /\ Count(trace[i], "close") = 1
         /\ Count(trace[i], "read") >= 1
         /\ \A r \in Positions(trace[i], "read"), k \in Positions(trace[i], "close") : r < k
         /\ Positions(trace[i], "close") = {Len(trace[i]) - 1}
         /\ Positions(trace[i], "return") = {Len(trace[i])}
    ELSE /\ Count(trace[i], "close") = 0
         /\ Count(trace[i], "read") = 0

C2_Witness ==
  \E i \in Calls : Finished(i) /\ GotResponse(i) /\ out[i].err.kind = "errorf"
                   /\ Count(trace[i], "close") = 1

\* -------------------------------------------------------------------- C3

\* C3: no two signed requests carry the same oauth_nonce.
C3_NonceNeverReused ==
  \A i, j \in Calls : (i # j /\ Signed(i) /\ Signed(j)) =>
    ValuesOf(req[i].Header["OAuth"], "oauth_nonce")
      \cap ValuesOf(req[j].Header["OAuth"], "oauth_nonce") = {}

\* -------------------------------------------------------------------- C4

\* C4: a response with status >= 400 gives nil bytes, a non-nil error and an
\* untouched target; the error is the APIError of the body exactly when the
\* body decodes as the error shape, and otherwise is "unexpected error: "
\* followed by the status line and nothing else.  Status 399 is no error.
C4_ErrorStatus ==
  \A i \in Calls : Decided(i) =>
    /\ res[i].StatusCode >= 400 =>
         /\ out[i].bytes = NilBytes
         /\ out[i].err # NilError
         /\ v[i].val = ZeroValue
         /\ out[i].err.kind = "APIError" <=> StartsWithObject(Received(res[i]))
         /\ StartsWithObject(Received(res[i])) =>
              out[i].err.api = ObjectValue(Received(res[i]), ZeroValue)
         /\ ~StartsWithObject(Received(res[i])) =>
              out[i].err = [kind |-> "errorf",
                            msg |-> "unexpected error: " \o res[i].Status,
                            cause |-> "", api |-> ZeroValue]
    /\ res[i].StatusCode < 400 => out[i].err.kind \notin {"APIError", "errorf"}

C4_Witness ==
  \E i \in Calls : Finished(i) /\ res[i].StatusCode = 400 /\ out[i].err.kind = "APIError"

\* -------------------------------------------------------------------- C5

\* C5: every call makes one send attempt, and a call whose send failed
\* returned nil bytes and an error wrapping the cause, read no body and left
\* the target alone.
C5_SendFailureNotRetried ==
  \A i \in Calls :
    /\ Count(trace[i], "send") <= 1
    /\ Finished(i) => Count(trace[i], "send") = 1
    /\ SendFailed(i) =>
         /\ out[i].bytes = NilBytes
         /\ out[i].err.kind = "wrapped"
         /\ out[i].err.msg = "making request"
         /\ out[i].err.cause \in SendCauses
         /\ Count(trace[i], "read") = 0
         /\ v[i].val = ZeroValue

C5_Witness == \E i \in Calls : SendFailed(i) /\ out[i].err.kind = "wrapped"

\* -------------------------------------------------------------------- C6

C7_DecodeIntoTarget ==
  \A i \in Calls : (Decided(i) /\ res[i].StatusCode < 400 /\ v[i].present) =>
    /\ out[i].bytes = NilBytes
    /\ StartsWithObject(Received(res[i])) =>
         /\ out[i].err = NilError
         /\ v[i].val = ObjectValue(Received(res[i]), ZeroValue)
    /\ ~StartsWithObject(Received(res[i])) =>
         /\ out[i].err.kind = "wrapped"
         /\ out[i].err.msg = "decoding json"
         /\ out[i].err.cause # ""
         /\ v[i].val = ZeroValue

C7_Witness ==
  \E i \in Calls : /\ Finished(i) /\ res[i].StatusCode = 200 /\ v[i].present
                   /\ v[i].val = [Title |-> "Invalid Card"] /\ out[i].err = NilError

\* -------------------------------------------------------------------- C8

\* C8: the header holds exactly the six oauth parameters, each once; the
\* signed string holds the five base parameters and no signature, and the
\* header's signature is the signature of that string.
C8_SixParameters ==
  \A i \in Calls : Signed(i) =>
    LET h == req[i].Header["OAuth"]
        signedParts == SplitOn(sig[i].s, "&")
    IN /\ HasExactly(Params(h), HeaderNames)
       /\ Len(signedParts) = 7
       /\ HasExactly([k \in 1..5 |-> Params(sig[i].s)[k + 2]], BaseNames)
       /\ ValuesOf(h, "oauth_signature")
            = {QueryEscape(Sign(c.ConsumerSecret, sig[i].s, << >>))}

C8_Witness ==
  \E i \in Calls : /\ Signed(i)
                   /\ c.ConsumerKey = <<"a", "&", "oauth_nonce", "=", "n">>
                   /\ Len(Params(req[i].Header["OAuth"])) = 6

\* -------------------------------------------------------------------- C9

\* The result of a call of do that runs alone with the same request, clock
\* reading, send outcome and response.
AloneHeader(i) ==
  LET c0 == New(<<"ck">>, <<"cs">>)
  IN OAuthString(c0.ConsumerKey, c0.ConsumerSecret, req[i].Method, req[i].URL, sig[i].ts)

AloneOut(i) ==
  IF ~GotResponse(i) THEN SendFailResult(out[i].err.cause)
  ELSE IF res[i].StatusCode >= 400 THEN ErrorResult(res[i])
  ELSE IF ~v[i].present THEN ReadAll(res[i])
  ELSE DecodeResult(Decode(res[i], ZeroValue))

AloneTrace(i) ==
  IF GotResponse(i) THEN <<"send", "read", "close", "return">> ELSE <<"send", "return">>

\* The outcome and body release of call i are those of the call alone.
AsAlone(i) ==
  /\ out[i] = AloneOut(i)
  /\ ~GotResponse(i) => out[i].err.cause \in SendCauses
  /\ trace[i] = AloneTrace(i)

\* C9: no step of any call writes the client; every call sends the headers,
\* and finishes with the outcome and the body release, of the same call run
\* alone, and no step of another call changes them afterwards.
C9_ConcurrentReuse ==
  /\ [](\A i \in Calls :
          /\ pc[i] = "send" =>
               /\ req[i].Header["OAuth"] = AloneHeader(i)
               /\ req[i].Header["Content-Type"] = <<"application", "/", "json">>
          /\ Finished(i) => AsAlone(i))
  /\ [][/\ c' = c
        /\ \A i \in Calls :
             /\ Signed(i) => req'[i] = req[i]
             /\ Finished(i) => /\ out'[i] = out[i] /\ trace'[i] = trace[i]
                               /\ v'[i] = v[i]]_vars

C9_Witness ==
  \E i, j \in Calls : /\ i # j /\ Finished(i) /\ Finished(j)
                      /\ sig[i].ts # sig[j].ts
                      /\ out[i].err.kind = "APIError" /\ ~out[j].bytes.isNil

\* ------------------------------------------------------------------- C10

\* C10: the signed string is UPPER(method) & escape(uri) & escape(encoded
\* parameters), the encoded parameters being the sorted form-encoding of the
\* five base parameters.
C10_BaseString ==
  \A i \in Calls : Signed(i) =>
    sig[i].s = ToUpper(req[i].Method) \o <<"&">> \o QueryEscape(req[i].URL) \o <<"&">>
                 \o QueryEscape(Encode(OAuthParams(c.ConsumerKey, sig[i].ts)))

====
